---- MODULE Spec2Model ----
(***************************************************************************)
(* CRA-to-Vite converter (Convertor/convertor.py and convertor2.py).       *)
(*                                                                         *)
(* Text is a sequence of one-character strings, so that Python's           *)
(* startswith / endswith / slicing / strip / replace are computed          *)
(* character by character as the interpreter computes them.                *)
(*                                                                         *)
(* Three specifications:                                                   *)
(*   SpecApi      call_gemini_api applied to a service outcome             *)
(*   SpecClassify the body of the os.walk loop applied to one file         *)
(*   Spec         one whole run of main()                                  *)
(***************************************************************************)
EXTENDS Integers, Sequences, FiniteSets, TLC

VARIABLES
    \* ---- call_gemini_api (SpecApi)
    apiPc,        \* "idle" | "requested" | "returned" | "off"
    apiSvc,       \* what the service does: [raises, text]; raises stands for any
                  \* Exception inside the try block (the request, response.text)
    apiResult,    \* value returned: [ok, text]; ok = FALSE is Python's None
    apiRequests,  \* number of generate_content requests issued so far
    \* ---- walk loop body on one file (SpecClassify)
    clsPc,        \* "in" | "out" | "off"
    clsIn,        \* [variant, rel, copyOk]
    clsOut,       \* [cls, st]: the branch taken and the state after the loop body
    \* ---- one run of main() (Spec): what the run is given
    variant,      \* 1 convertor.py, 2 convertor2.py
    argc,         \* len(sys.argv) - 1
    keyIsPlaceholder, \* GEMINI_API_KEY == 'YOUR_GEMINI_API_KEY'
    cfgRaises,    \* genai.configure itself raises
    srcDir,       \* "missing" | "nosrc" | "ok": sys.argv[1] and its src subdirectory
    source,       \* the files under <source>/src: relative path -> content
    destExisted,  \* the destination directory existed when the run started
    \* ---- the run's state
    pc,           \* the statement main() is at; "exited" once the process ended
    exitStatus,   \* -1 while running, then the process's exit status
    exitCause,    \* which statement ended the process
    st,           \* [files, dirs, jsx, test, copied, origin]: destination and queues
    index_js_content,
    walkDir,      \* the directory os.walk is listing (a prefix of relative paths)
    visited,      \* source files the walk loop body has been through
    jobIdx,       \* position in the running task loop
    \* ---- history
    log,          \* one record per transform job iteration
    written,      \* destination paths this run wrote
    madeDirs,     \* destination directories this run created
    faults        \* I/O failures met so far

apiVars == <<apiPc, apiSvc, apiResult, apiRequests>>
clsVars == <<clsPc, clsIn, clsOut>>
inVars == <<variant, argc, keyIsPlaceholder, cfgRaises, srcDir, source, destExisted>>
ctlVars == <<pc, exitStatus, exitCause>>
walkVars == <<index_js_content, walkDir, visited>>
histVars == <<log, written, madeDirs, faults>>
runVars == <<inVars, ctlVars, st, walkVars, jobIdx, histVars>>
vars == <<apiVars, clsVars, runVars>>

---------------------------------------------------------------------------
(* Bounds *)

\* longest payload of a drawn service response
MaxBody == 2

\* most files in a drawn source tree
MaxFiles == 3

\* most I/O failures (copy, open, write, read) met in one run
MaxFaults == 1

---------------------------------------------------------------------------
(* Python str primitives *)

Drop(s, n) == SubSeq(s, n + 1, Len(s))

Take(s, n) == SubSeq(s, 1, n)

\* s[:-n]
DropLast(s, n) == SubSeq(s, 1, Len(s) - n)

StartsWith(s, p) == Len(s) >= Len(p) /\ SubSeq(s, 1, Len(p)) = p

EndsWith(s, p) == Len(s) >= Len(p) /\ SubSeq(s, Len(s) - Len(p) + 1, Len(s)) = p

\* the whitespace str.strip() removes, as far as the drawn texts hold any
Whitespace == {" ", "\n"}

RECURSIVE LStrip(_)
LStrip(s) == IF s # <<>> /\ Head(s) \in Whitespace THEN LStrip(Tail(s)) ELSE s

RECURSIVE RStrip(_)
RStrip(s) == IF s # <<>> /\ s[Len(s)] \in Whitespace THEN RStrip(DropLast(s, 1)) ELSE s

\* str.strip()
Strip(s) == RStrip(LStrip(s))

\* str.replace(old, new): leftmost non-overlapping occurrences
RECURSIVE Replace(_, _, _)
Replace(s, old, new) ==
    IF s = <<>> THEN <<>>
    ELSE IF StartsWith(s, old) THEN new \o Replace(Drop(s, Len(old)), old, new)
    ELSE <<Head(s)>> \o Replace(Tail(s), old, new)

---------------------------------------------------------------------------
(* call_gemini_api: convertor2.py lines 157-178; convertor.py lines 151-172 are *)
(* the same statements with the model name written in place.                 *)

\* The backtick character (U+0060). SANY pairs a literal backtick with a later
\* prime, so the character is written "#" here; no other text uses "#".
BT == "#"

FenceJsx == <<BT, BT, BT, "j", "s", "x">>

FenceJavascript == <<BT, BT, BT, "j", "a", "v", "a", "s", "c", "r", "i", "p", "t">>

Fence == <<BT, BT, BT>>

\* cleaned_text[5:] after the jsx opener matched
JsxCut == 5

\* cleaned_text[13:] after the javascript opener matched
JavascriptCut == 13

\* cleaned_text[:-3] after the closing fence matched
FenceCut == 3

None == [ok |-> FALSE, text |-> <<>>]

Some(t) == [ok |-> TRUE, text |-> t]

\* Python truthiness of the returned value: None and the empty string are falsy
Truthy(r) == r.ok /\ r.text # <<>>

CutJsx(t) == IF StartsWith(t, FenceJsx) THEN Drop(t, JsxCut) ELSE t

CutJavascript(t) == IF StartsWith(t, FenceJavascript) THEN Drop(t, JavascriptCut) ELSE t

CutClosing(t) == IF EndsWith(t, Fence) THEN DropLast(t, FenceCut) ELSE t

\* the clean-up without its last strip()
CleanResponseNoFinalStrip(text) == CutClosing(CutJavascript(CutJsx(Strip(text))))

\* the clean-up of response.text
CleanResponse(text) == Strip(CutClosing(CutJavascript(CutJsx(Strip(text)))))

\* the value call_gemini_api returns for a service outcome
call_gemini_api(svc) == IF svc.raises THEN None ELSE Some(CleanResponse(svc.text))

---------------------------------------------------------------------------
(* Service outcomes drawn for SpecApi *)

BodyChars == {"C", " ", BT}

RECURSIVE SeqsUpTo(_, _)
SeqsUpTo(S, n) ==
    IF n = 0 THEN {<<>>}
    ELSE LET shorter == SeqsUpTo(S, n - 1)
         IN shorter \cup {<<c>> \o s : c \in S, s \in {t \in shorter : Len(t) = n - 1}}

Bodies == SeqsUpTo(BodyChars, MaxBody)

Openers == {<<>>, FenceJsx, FenceJavascript, Fence, <<BT, BT, BT, "j", "s">>}

Closers == {<<>>, Fence}

Pads == {<<>>, <<" ", "\n">>}

Seps == {<<>>, <<"\n">>}

ApiTexts ==
    {pad \o op \o sep \o body \o sep \o cl \o pad :
        pad \in Pads, op \in Openers, sep \in Seps, body \in Bodies, cl \in Closers}

ApiOutcomes == {[raises |-> TRUE, text |-> <<>>]} \cup {[raises |-> FALSE, text |-> t] : t \in ApiTexts}

ApiInit ==
    /\ apiPc = "idle"
    /\ apiSvc \in ApiOutcomes
    /\ apiResult = None
    /\ apiRequests = 0

ApiOff ==
    /\ apiPc = "off"
    /\ apiSvc = [raises |-> TRUE, text |-> <<>>]
    /\ apiResult = None
    /\ apiRequests = 0

\* model.generate_content(full_prompt): the one request of the call
ApiRequest ==
    /\ apiPc = "idle"
    /\ apiPc' = "requested"
    /\ apiRequests' = apiRequests + 1
    /\ UNCHANGED <<apiSvc, apiResult, clsVars, runVars>>

\* the clean-up and return, or the except branch returning None
ApiReturn ==
    /\ apiPc = "requested"
    /\ apiPc' = "returned"
    /\ apiResult' = call_gemini_api(apiSvc)
    /\ UNCHANGED <<apiSvc, apiRequests, clsVars, runVars>>

---------------------------------------------------------------------------
(* os.path primitives on "/"-separated text *)

Slash == <<"/">>

\* os.path.join(a, b) for a relative b
Join(a, b) == a \o Slash \o b

\* position of the last "/" of p, 0 when it has none
LastSlash(p) ==
    LET at == {i \in 1..Len(p) : p[i] = "/"}
    IN IF at = {} THEN 0 ELSE CHOOSE i \in at : \A j \in at : j <= i

\* os.path.basename
Basename(p) == Drop(p, LastSlash(p))

\* os.path.dirname
Dirname(p) == IF LastSlash(p) = 0 THEN <<>> ELSE Take(p, LastSlash(p) - 1)

\* the directories os.makedirs(d, exist_ok=True) makes sure exist: d and its parents
Ancestors(d) ==
    IF d = <<>> THEN {}
    ELSE {d} \cup {Take(d, i - 1) : i \in {j \in 2..Len(d) : d[j] = "/"}}

---------------------------------------------------------------------------
(* Names used by main() *)

DotJs == <<".", "j", "s">>

DotJsx == <<".", "j", "s", "x">>

DotTestJs == <<".", "t", "e", "s", "t", ".", "j", "s">>

DotSpecJs == <<".", "s", "p", "e", "c", ".", "j", "s">>

IndexJs == <<"i", "n", "d", "e", "x", ".", "j", "s">>

MainJsx == <<"m", "a", "i", "n", ".", "j", "s", "x">>

SrcName == <<"s", "r", "c">>

PublicName == <<"p", "u", "b", "l", "i", "c">>

ViteSuffix == <<"-", "V", "i", "t", "e">>

\* dest_path[:-3] + '.jsx'
JsCut == 3

\* dest_dir = f"{base_name}-Vite"
DestDir(base) == base \o ViteSuffix

\* dest_src_dir = os.path.join(dest_dir, 'src')
DestSrcDir(base) == Join(DestDir(base), SrcName)

\* dest_public_dir = os.path.join(dest_dir, 'public')
DestPublicDir(base) == Join(DestDir(base), PublicName)

---------------------------------------------------------------------------
(* The walk loop: classification of one file and the loop body *)

\* filename.endswith(('.test.js', '.spec.js'))
IsTestName(filename) == EndsWith(filename, DotTestJs) \/ EndsWith(filename, DotSpecJs)

\* dest_path.replace('.js', '.jsx') of the test branch (convertor2.py)
TestDest(dest_path) == Replace(dest_path, DotJs, DotJsx)

\* the generic branch renaming as the test branch does
JsxDestReplace(dest_path) == Replace(dest_path, DotJs, DotJsx)

\* dest_path[:-3] + '.jsx' of the generic .js branch
JsxDest(dest_path) == DropLast(dest_path, JsCut) \o DotJsx

\* The branch the loop body takes for the file at relative path rel and the path
\* it copies to. vnt 1 is convertor.py (no test branch), 2 is convertor2.py.
ClassifyFile(vnt, destSrc, rel) ==
    LET filename == Basename(rel)
        dest_path == Join(destSrc, rel)
    IN IF filename = IndexJs THEN [role |-> "skip", dest |-> <<>>]
       ELSE IF vnt = 2 /\ IsTestName(filename)
            THEN [role |-> "test", dest |-> TestDest(dest_path)]
       ELSE IF EndsWith(filename, DotJs)
            THEN [role |-> "jsx", dest |-> JsxDest(dest_path)]
       ELSE [role |-> "copy", dest |-> dest_path]

\* shutil.copy2(source_path, dest): raises when the environment fails it or when
\* the directory of dest does not exist
CopySucceeds(w, dest, copyOk) == copyOk /\ Dirname(dest) \in w.dirs

\* the loop body queuing the destination path before the copy is attempted
WalkBodyQueueBeforeCopy(vnt, destSrc, rel, content, copyOk, w) ==
    LET c == ClassifyFile(vnt, destSrc, rel)
        made == [w EXCEPT !.dirs = @ \cup Ancestors(Dirname(Join(destSrc, rel))),
                          !.jsx = IF c.role = "jsx" THEN Append(@, c.dest) ELSE @,
                          !.test = IF c.role = "test" THEN Append(@, c.dest) ELSE @]
    IN IF c.role = "skip" THEN w
       ELSE IF ~CopySucceeds(made, c.dest, copyOk) THEN made
       ELSE [made EXCEPT
               !.files = [p \in DOMAIN @ \cup {c.dest} |-> IF p = c.dest THEN content ELSE @[p]],
               !.copied = @ \cup {rel},
               !.origin = [p \in DOMAIN @ \cup {c.dest} |-> IF p = c.dest THEN rel ELSE @[p]]]

\* One iteration of "for filename in files" on the state w = [files, dirs, jsx,
\* test, copied, origin]: files maps a destination path to its content, dirs is
\* the set of destination directories, jsx and test are jsx_files_to_process and
\* test_files_to_process; copied (the source files whose copy succeeded) and
\* origin (destination path -> the source file last copied there) are history.
WalkBody(vnt, destSrc, rel, content, copyOk, w) ==
    LET c == ClassifyFile(vnt, destSrc, rel)
        made == [w EXCEPT !.dirs = @ \cup Ancestors(Dirname(Join(destSrc, rel)))]
    IN IF c.role = "skip" THEN w
       ELSE IF ~CopySucceeds(made, c.dest, copyOk) THEN made
       ELSE [made EXCEPT
               !.files = [p \in DOMAIN @ \cup {c.dest} |-> IF p = c.dest THEN content ELSE @[p]],
               !.copied = @ \cup {rel},
               !.origin = [p \in DOMAIN @ \cup {c.dest} |-> IF p = c.dest THEN rel ELSE @[p]],
               !.jsx = IF c.role = "jsx" THEN Append(@, c.dest) ELSE @,
               !.test = IF c.role = "test" THEN Append(@, c.dest) ELSE @]

---------------------------------------------------------------------------
(* Directory setup and the static files *)

IndexHtml == <<"i", "n", "d", "e", "x", ".", "h", "t", "m", "l">>

PackageJson == <<"p", "a", "c", "k", "a", "g", "e", ".", "j", "s", "o", "n">>

ViteConfigJs == <<"v", "i", "t", "e", ".", "c", "o", "n", "f", "i", "g", ".", "j", "s">>

EslintConfigJs == <<"e", "s", "l", "i", "n", "t", ".", "c", "o", "n", "f", "i", "g", ".", "j", "s">>

ViteSvg == <<"v", "i", "t", "e", ".", "s", "v", "g">>

IndexCss == <<"i", "n", "d", "e", "x", ".", "c", "s", "s">>

AppTestJsx == <<"A", "p", "p", ".", "t", "e", "s", "t", ".", "j", "s", "x">>

\* The static file contents (INDEX_HTML_CONTENT, ...), one letter each: only
\* their identity matters. Placeholders are written empty.
StaticContent(name) ==
    IF name = IndexHtml THEN <<"H">>
    ELSE IF name = PackageJson THEN <<"K">>
    ELSE IF name = ViteConfigJs THEN <<"V">>
    ELSE IF name = EslintConfigJs THEN <<"E">>
    ELSE IF name = AppTestJsx THEN <<"T">>
    ELSE <<>>

\* the files section 2 of main() writes; convertor.py also writes src/App.test.jsx
ScaffoldFiles(vnt, base) ==
    LET top == {IndexHtml, PackageJson, ViteConfigJs, EslintConfigJs}
        inSrc == IF vnt = 1 THEN {AppTestJsx, IndexCss} ELSE {IndexCss}
        paths == {Join(DestDir(base), n) : n \in top}
                 \cup {Join(DestPublicDir(base), ViteSvg)}
                 \cup {Join(DestSrcDir(base), n) : n \in inSrc}
    IN [p \in paths |-> StaticContent(Basename(p))]

\* the directories os.makedirs(dest_src_dir) and os.makedirs(dest_public_dir) create
ScaffoldDirs(base) == {DestDir(base), DestSrcDir(base), DestPublicDir(base)}

\* the destination and the queues when the walk starts
WalkStart(vnt, base) ==
    [files |-> ScaffoldFiles(vnt, base), dirs |-> ScaffoldDirs(base),
     jsx |-> <<>>, test |-> <<>>, copied |-> {}, origin |-> <<>>]

---------------------------------------------------------------------------
(* SpecClassify: the loop body applied to one file *)

ProjP == <<"P">>

ProjPJs == <<"P", ".", "j", "s">>

ClsBases == {ProjP, ProjPJs}

ClsDirs == {<<>>, <<"c", "/">>, <<"v", ".", "j", "s", "/">>}

ClsNames ==
    {IndexJs,
     <<"A", ".", "j", "s">>,
     <<"A", ".", "j", "s", "x">>,
     <<"A", ".", "c", "s", "s">>,
     <<"d", ".", "j", "s", "o", "n">>,
     DotJs,
     <<"A">> \o DotTestJs,
     <<"A">> \o DotSpecJs,
     <<"A", ".", "j", "s">> \o DotTestJs,
     <<"A", ".", "t", "e", "s", "t", ".", "j", "s", "x">>}

ClsRels == {d \o n : d \in ClsDirs, n \in ClsNames}

ClsContent == <<"o", "k">>

ClsInit ==
    /\ clsPc = "in"
    /\ clsIn \in [variant : {1, 2}, base : ClsBases, rel : ClsRels, copyOk : BOOLEAN]
    /\ clsOut = <<>>

\* one iteration of the walk loop on the drawn file
ClassifyStep ==
    /\ clsPc = "in"
    /\ clsPc' = "out"
    /\ clsOut' = [cls |-> ClassifyFile(clsIn.variant, DestSrcDir(clsIn.base), clsIn.rel),
                  st |-> WalkBody(clsIn.variant, DestSrcDir(clsIn.base), clsIn.rel, ClsContent,
                                  clsIn.copyOk, WalkStart(clsIn.variant, clsIn.base))]
    /\ UNCHANGED <<clsIn, apiVars, runVars>>

---------------------------------------------------------------------------
(* Spec: one run of main(). What the run is given. *)

AppJs == <<"A", "p", "p", ".", "j", "s">>

AppCss == <<"A", "p", "p", ".", "c", "s", "s">>

AppTestJs == <<"A", "p", "p">> \o DotTestJs

AppJsx == <<"A", "p", "p">> \o DotJsx

MainJs == <<"m", "a", "i", "n", ".", "j", "s">>

SubB == <<"c", "/", "B", ".", "j", "s">>

SubIndex == <<"c", "/">> \o IndexJs

DotJsDirSpec == <<"v", ".", "j", "s", "/", "t">> \o DotSpecJs

\* the files a drawn source tree is made of
Universe == {IndexJs, AppJs, AppCss, AppTestJs, AppJsx, MainJs, SubB, SubIndex, DotJsDirSpec}

\* the content of each source file, distinct from file to file; src/index.js is
\* also drawn empty
FileContent(rel) ==
    CASE rel = IndexJs -> <<"i", "d", "x", "0">>
      [] rel = AppJs -> <<"a", "p", "p", "1">>
      [] rel = AppCss -> <<"c", "s", "s", "2">>
      [] rel = AppTestJs -> <<"t", "s", "t", "3">>
      [] rel = AppJsx -> <<"j", "s", "x", "4">>
      [] rel = MainJs -> <<"m", "a", "n", "8">>
      [] rel = SubB -> <<"s", "u", "b", "5">>
      [] rel = SubIndex -> <<"s", "i", "x", "6">>
      [] OTHER -> <<"s", "p", "c", "7">>

Trees ==
    {[r \in S |-> IF r = IndexJs /\ e THEN <<>> ELSE FileContent(r)] :
        S \in {T \in SUBSET Universe : Cardinality(T) <= MaxFiles}, e \in BOOLEAN}

\* what is left of an earlier run in the destination
StaleFiles ==
    LET a == Join(DestDir(ProjP), <<"o", "l", "d">>)
        b == Join(DestSrcDir(ProjP), <<"O", "l", "d">> \o DotJsx)
    IN [p \in {a, b} |-> <<"s", "t", "a", "l", "e">>]

StaleDirs == {DestDir(ProjP), DestSrcDir(ProjP)}

NoFiles == [p \in {} |-> <<>>]

\* the setup a run is given: a wrong argument count, a missing directory, or a
\* project with a drawn source tree
Given ==
    {[argc |-> n, srcDir |-> "ok", source |-> NoFiles] : n \in {0, 2}}
    \cup {[argc |-> 1, srcDir |-> d, source |-> NoFiles] : d \in {"missing", "nosrc"}}
    \cup {[argc |-> 1, srcDir |-> "ok", source |-> t] : t \in Trees}

RunInit ==
    /\ variant \in {1, 2}
    /\ \E g \in Given : argc = g.argc /\ srcDir = g.srcDir /\ source = g.source
    /\ keyIsPlaceholder \in BOOLEAN
    /\ cfgRaises \in BOOLEAN
    /\ destExisted \in BOOLEAN
    /\ pc = "guard"
    /\ exitStatus = -1
    /\ exitCause = ""
    /\ st = [files |-> IF destExisted THEN StaleFiles ELSE NoFiles,
             dirs |-> IF destExisted THEN StaleDirs ELSE {},
             jsx |-> <<>>, test |-> <<>>, copied |-> {}, origin |-> NoFiles]
    /\ index_js_content = <<>>
    /\ walkDir = <<>>
    /\ visited = {}
    /\ jobIdx = 1
    /\ log = <<>>
    /\ written = {}
    /\ madeDirs = {}
    /\ faults = 0

---------------------------------------------------------------------------
(* Setup: sections 1 and 2 of main() *)

\* sys.exit(1), or an exception no handler catches: the process ends with status 1
Exit1(cause) ==
    /\ pc' = "exited"
    /\ exitStatus' = 1
    /\ exitCause' = cause

Goto(next) ==
    /\ pc' = next
    /\ UNCHANGED <<exitStatus, exitCause>>

\* the __main__ guard on the placeholder key
KeyGuard ==
    /\ pc = "guard"
    /\ IF keyIsPlaceholder THEN Exit1("key") ELSE Goto("args")
    /\ UNCHANGED <<inVars, st, walkVars, jobIdx, histVars, apiVars, clsVars>>

\* if len(sys.argv) != 2
CheckArgs ==
    /\ pc = "args"
    /\ IF argc # 1 THEN Exit1("usage") ELSE Goto("srcdir")
    /\ UNCHANGED <<inVars, st, walkVars, jobIdx, histVars, apiVars, clsVars>>

\* if not os.path.isdir(source_dir)
CheckSourceDir ==
    /\ pc = "srcdir"
    /\ IF srcDir = "missing" THEN Exit1("nosource") ELSE Goto("srcsub")
    /\ UNCHANGED <<inVars, st, walkVars, jobIdx, histVars, apiVars, clsVars>>

\* the src check skipped: the run goes on without a src directory
CheckSrcSubdirNoExit ==
    /\ pc = "srcsub"
    /\ Goto("configure")
    /\ UNCHANGED <<inVars, st, walkVars, jobIdx, histVars, apiVars, clsVars>>

\* if not os.path.isdir(source_src_dir)
CheckSrcSubdir ==
    /\ pc = "srcsub"
    /\ IF srcDir = "nosrc" THEN Exit1("nosrc") ELSE Goto("configure")
    /\ UNCHANGED <<inVars, st, walkVars, jobIdx, histVars, apiVars, clsVars>>

\* genai.configure(api_key=...) inside try/except Exception. convertor.py passes
\* API_KEY, a name the module never defines (it defines GEMINI_API_KEY): evaluating
\* it raises NameError, which the handler turns into sys.exit(1).
Configure ==
    /\ pc = "configure"
    /\ IF variant = 1 \/ cfgRaises THEN Exit1("configure") ELSE Goto("mkdirs")
    /\ UNCHANGED <<inVars, st, walkVars, jobIdx, histVars, apiVars, clsVars>>

\* a file system tree after shutil.rmtree failed part-way: some of it is left
PartlyRemoved(files) == {[p \in S |-> files[p]] : S \in SUBSET DOMAIN files}

\* the directory setup merging into an existing destination
MakeDirsKeep ==
    /\ pc = "mkdirs"
    /\ st' = [st EXCEPT !.dirs = @ \cup ScaffoldDirs(ProjP)]
    /\ madeDirs' = ScaffoldDirs(ProjP)
    /\ Goto("scaffold")
    /\ UNCHANGED <<inVars, walkVars, jobIdx, log, written, faults, apiVars, clsVars>>

\* "Create output directory": rmtree of an existing destination, then makedirs of
\* src and public; an OSError in either ends the run
MakeDirs ==
    /\ pc = "mkdirs"
    /\ \/ /\ st' = [st EXCEPT !.files = NoFiles, !.dirs = ScaffoldDirs(ProjP)]
          /\ madeDirs' = ScaffoldDirs(ProjP)
          /\ Goto("scaffold")
       \/ /\ DestDir(ProjP) \in st.dirs
          /\ \E left \in PartlyRemoved(st.files) : st' = [st EXCEPT !.files = left]
          /\ madeDirs' = madeDirs
          /\ Exit1("mkdirs")
       \/ /\ \E made \in {{}, {DestDir(ProjP), DestSrcDir(ProjP)}} :
                /\ st' = [st EXCEPT !.files = NoFiles, !.dirs = made]
                /\ madeDirs' = made
          /\ Exit1("mkdirs")
    /\ UNCHANGED <<inVars, walkVars, jobIdx, log, written, faults, apiVars, clsVars>>

\* the order section 2 writes the static files in
ScaffoldOrder(vnt, base) ==
    <<Join(DestDir(base), IndexHtml), Join(DestDir(base), PackageJson),
      Join(DestDir(base), ViteConfigJs), Join(DestDir(base), EslintConfigJs),
      Join(DestPublicDir(base), ViteSvg)>>
    \o (IF vnt = 1 THEN <<Join(DestSrcDir(base), AppTestJsx)>> ELSE <<>>)
    \o <<Join(DestSrcDir(base), IndexCss)>>

\* the files f with those of g written over them
Overlay(f, g) == [p \in DOMAIN f \cup DOMAIN g |-> IF p \in DOMAIN g THEN g[p] ELSE f[p]]

\* "Create Static/New Files": all of them, or an IOError after the first k
Scaffold ==
    /\ pc = "scaffold"
    /\ LET order == ScaffoldOrder(variant, ProjP)
           all == ScaffoldFiles(variant, ProjP)
       IN \/ /\ st' = [st EXCEPT !.files = Overlay(@, all)]
             /\ written' = written \cup DOMAIN all
             /\ Goto("readindex")
          \/ \E k \in 0..(Len(order) - 1) :
                LET done == {order[i] : i \in 1..k}
                IN /\ st' = [st EXCEPT !.files = Overlay(@, [p \in done |-> all[p]])]
                   /\ written' = written \cup done
                   /\ Exit1("scaffold")
    /\ UNCHANGED <<inVars, walkVars, jobIdx, log, madeDirs, faults, apiVars, clsVars>>

---------------------------------------------------------------------------
(* Section 3 of main(): the entry point is read, the tree is walked *)

\* "Handle src/index.js separately": the read has no handler around it
ReadIndex ==
    /\ pc = "readindex"
    /\ \/ /\ IndexJs \in DOMAIN source
          /\ index_js_content' = source[IndexJs]
          /\ Goto("walk")
          /\ faults' = faults
       \/ /\ IndexJs \in DOMAIN source
          /\ faults < MaxFaults
          /\ index_js_content' = index_js_content
          /\ Exit1("crash")
          /\ faults' = faults + 1
       \/ /\ IndexJs \notin DOMAIN source
          /\ index_js_content' = <<>>
          /\ Goto("walk")
          /\ faults' = faults
    /\ UNCHANGED <<inVars, st, walkDir, visited, jobIdx, log, written, madeDirs, apiVars, clsVars>>

\* the destination paths whose content differs between two file maps
Wrote(old, new) == {p \in DOMAIN new : p \notin DOMAIN old \/ new[p] # old[p]}

\* the files os.walk may hand to the loop next: the rest of the directory being
\* listed, and once it is exhausted the files of the directories not yet listed
NextFiles ==
    LET remaining == DOMAIN source \ visited
        here == {r \in remaining : Dirname(r) = walkDir}
    IN IF here # {} THEN here ELSE remaining

\* one iteration of the walk loop; os.makedirs has no handler around it
WalkFile ==
    /\ pc = "walk"
    /\ \E rel \in NextFiles :
          /\ walkDir' = Dirname(rel)
          /\ \/ \E copyOk \in BOOLEAN :
                   /\ copyOk \/ (faults < MaxFaults /\ Basename(rel) # IndexJs)
                   /\ st' = WalkBody(variant, DestSrcDir(ProjP), rel, source[rel], copyOk, st)
                   /\ visited' = visited \cup {rel}
                   /\ faults' = IF copyOk THEN faults ELSE faults + 1
                   /\ Goto("walk")
             \/ /\ faults < MaxFaults
                /\ Basename(rel) # IndexJs
                /\ st' = st
                /\ visited' = visited
                /\ faults' = faults + 1
                /\ Exit1("crash")
    /\ written' = written \cup Wrote(st.files, st'.files)
    /\ madeDirs' = madeDirs \cup (st'.dirs \ st.dirs)
    /\ UNCHANGED <<inVars, index_js_content, jobIdx, log, apiVars, clsVars>>

\* the walk is over: "File copying complete"
WalkEnd ==
    /\ pc = "walk"
    /\ DOMAIN source \ visited = {}
    /\ Goto("task1")
    /\ jobIdx' = 1
    /\ UNCHANGED <<inVars, st, walkVars, histVars, apiVars, clsVars>>

---------------------------------------------------------------------------
(* Section 4 of main(): the transform tasks *)

\* what the service does in a run: it raises, answers a bare fence (cleaned to
\* the empty text), or answers a jsx-fenced payload
RunOutcomes ==
    {[raises |-> TRUE, text |-> <<>>],
     [raises |-> FALSE, text |-> Fence],
     [raises |-> FALSE, text |-> FenceJsx \o <<"\n", "z", "\n">> \o Fence]}

\* the service sending back the payload it was given, unchanged
Echo(payload) == [raises |-> FALSE, text |-> payload]

\* what the service may do with the file at a queued path: one of the outcomes
\* above, or the file's content sent back unchanged
JobOutcomes(path) ==
    RunOutcomes \cup (IF path \in DOMAIN st.files THEN {Echo(st.files[path])} ELSE {})

\* a call that asks the service again after an error
CalledWithRetry(svc, result) ==
    /\ apiSvc' = svc
    /\ apiRequests' = apiRequests + (IF svc.raises THEN 2 ELSE 1)
    /\ apiResult' = result

\* One call of call_gemini_api made by main(): the service did svc, one request
\* went out (generate_content is called once, outside any loop) and the caller
\* holds the value returned.
Called(svc, result) ==
    /\ apiSvc' = svc
    /\ apiRequests' = apiRequests + 1
    /\ apiResult' = result

\* f.seek(0); f.write(new) reaching the file without the f.truncate() after it
Overwrite(old, new) == new \o Drop(old, Len(new))

\* the job without f.truncate(): the new text is written over the start of the old
JobStepNoTruncate(kind, path, io, svc) ==
    LET opened == io # "openfail" /\ path \in DOMAIN st.files
        original_code == IF opened THEN st.files[path] ELSE <<>>
        updated_code == call_gemini_api(svc)
        outcome == IF ~opened THEN "openfail"
                   ELSE IF ~updated_code.ok THEN "error"
                   ELSE IF ~Truthy(updated_code) THEN "empty"
                   ELSE IF io = "writefail" THEN "writefail"
                   ELSE "ok"
    IN /\ io = "writefail" => (opened /\ Truthy(updated_code))
       /\ io # "ok" => faults < MaxFaults
       /\ faults' = IF io = "ok" THEN faults ELSE faults + 1
       /\ CASE outcome = "ok" ->
                 st' = [st EXCEPT !.files[path] = Overwrite(original_code, updated_code.text)]
            [] outcome = "writefail" ->
                 \E left \in {original_code, Overwrite(original_code, updated_code.text)} :
                    st' = [st EXCEPT !.files[path] = left]
            [] OTHER -> st' = st
       /\ log' = Append(log, [kind |-> kind, path |-> path, payload |-> original_code,
                              outcome |-> outcome, text |-> updated_code.text,
                              wrote |-> Wrote(st.files, st'.files)])
       /\ written' = written \cup Wrote(st.files, st'.files)
       /\ IF opened THEN Called(svc, updated_code) ELSE UNCHANGED <<apiSvc, apiResult, apiRequests>>

\* the job writing whatever is not None, the empty text included
JobStepWriteUnlessNone(kind, path, io, svc) ==
    LET opened == io # "openfail" /\ path \in DOMAIN st.files
        original_code == IF opened THEN st.files[path] ELSE <<>>
        updated_code == call_gemini_api(svc)
        outcome == IF ~opened THEN "openfail"
                   ELSE IF ~updated_code.ok THEN "error"
                   ELSE IF ~Truthy(updated_code) THEN "empty"
                   ELSE IF io = "writefail" THEN "writefail"
                   ELSE "ok"
    IN /\ io = "writefail" => (opened /\ Truthy(updated_code))
       /\ io # "ok" => faults < MaxFaults
       /\ faults' = IF io = "ok" THEN faults ELSE faults + 1
       /\ CASE outcome \in {"ok", "empty"} ->
                 st' = [st EXCEPT !.files[path] = updated_code.text]
            [] outcome = "writefail" ->
                 \E left \in {original_code, Overwrite(original_code, updated_code.text)} :
                    st' = [st EXCEPT !.files[path] = left]
            [] OTHER -> st' = st
       /\ log' = Append(log, [kind |-> kind, path |-> path, payload |-> original_code,
                              outcome |-> outcome, text |-> updated_code.text,
                              wrote |-> Wrote(st.files, st'.files)])
       /\ written' = written \cup Wrote(st.files, st'.files)
       /\ IF opened THEN Called(svc, updated_code) ELSE UNCHANGED <<apiSvc, apiResult, apiRequests>>

\* One iteration of a task loop on the queued destination path: open 'r+', read,
\* call_gemini_api, and on a truthy result seek/write/truncate; any exception is
\* caught by the loop's handler. io is what the file system does: "ok", "openfail"
\* (open or read raises) or "writefail" (the write raises part-way).
JobStep(kind, path, io, svc) ==
    LET opened == io # "openfail" /\ path \in DOMAIN st.files
        original_code == IF opened THEN st.files[path] ELSE <<>>
        updated_code == call_gemini_api(svc)
        outcome == IF ~opened THEN "openfail"
                   ELSE IF ~updated_code.ok THEN "error"
                   ELSE IF ~Truthy(updated_code) THEN "empty"
                   ELSE IF io = "writefail" THEN "writefail"
                   ELSE "ok"
    IN /\ io = "writefail" => (opened /\ Truthy(updated_code))
       /\ io # "ok" => faults < MaxFaults
       /\ faults' = IF io = "ok" THEN faults ELSE faults + 1
       /\ CASE outcome = "ok" ->
                 st' = [st EXCEPT !.files[path] = updated_code.text]
            [] outcome = "writefail" ->
                 \E left \in {original_code, Overwrite(original_code, updated_code.text)} :
                    st' = [st EXCEPT !.files[path] = left]
            [] OTHER -> st' = st
       /\ log' = Append(log, [kind |-> kind, path |-> path, payload |-> original_code,
                              outcome |-> outcome, text |-> updated_code.text,
                              wrote |-> Wrote(st.files, st'.files)])
       /\ written' = written \cup Wrote(st.files, st'.files)
       /\ IF opened THEN Called(svc, updated_code) ELSE UNCHANGED <<apiSvc, apiResult, apiRequests>>

JobIo == {"ok", "openfail", "writefail"}

\* a task loop that ends the process when a transform fails
Task1JobExitOnFailure ==
    /\ pc = "task1"
    /\ jobIdx <= Len(st.jsx)
    /\ \E io \in JobIo, svc \in JobOutcomes(st.jsx[jobIdx]) :
          JobStep("import", st.jsx[jobIdx], io, svc)
    /\ jobIdx' = jobIdx + 1
    /\ IF log'[Len(log')].outcome = "ok" THEN Goto("task1") ELSE Exit1("crash")
    /\ UNCHANGED <<inVars, walkVars, madeDirs, apiPc, clsVars>>

\* TASK 1: one iteration of "for file_path in jsx_files_to_process"
Task1Job ==
    /\ pc = "task1"
    /\ jobIdx <= Len(st.jsx)
    /\ \E io \in JobIo, svc \in JobOutcomes(st.jsx[jobIdx]) :
          JobStep("import", st.jsx[jobIdx], io, svc)
    /\ jobIdx' = jobIdx + 1
    /\ Goto("task1")
    /\ UNCHANGED <<inVars, walkVars, madeDirs, apiPc, clsVars>>

\* "Import update task complete"; convertor.py has no test task
Task1End ==
    /\ pc = "task1"
    /\ jobIdx > Len(st.jsx)
    /\ Goto(IF variant = 2 THEN "task2" ELSE "task3")
    /\ jobIdx' = 1
    /\ UNCHANGED <<inVars, st, walkVars, histVars, apiVars, clsVars>>

\* TASK 2 (convertor2.py): one iteration of "for file_path in test_files_to_process"
Task2Job ==
    /\ pc = "task2"
    /\ jobIdx <= Len(st.test)
    /\ \E io \in JobIo, svc \in JobOutcomes(st.test[jobIdx]) :
          JobStep("test", st.test[jobIdx], io, svc)
    /\ jobIdx' = jobIdx + 1
    /\ Goto("task2")
    /\ UNCHANGED <<inVars, walkVars, madeDirs, apiPc, clsVars>>

\* "Test file conversion task complete"
Task2End ==
    /\ pc = "task2"
    /\ jobIdx > Len(st.test)
    /\ Goto("task3")
    /\ jobIdx' = 1
    /\ UNCHANGED <<inVars, st, walkVars, histVars, apiVars, clsVars>>

\* the path main.jsx is written to
MainJsxPath == Join(DestSrcDir(ProjP), MainJsx)

\* the entry-point task: "if index_js_content:" one call, and on a truthy result
\* main.jsx is opened 'w' and written, an IOError being caught
Task3Entry ==
    /\ pc = "task3"
    /\ \/ /\ index_js_content # <<>>
          /\ \E svc \in RunOutcomes \cup {Echo(index_js_content)}, io \in {"ok", "writefail"} :
                LET main_jsx_content == call_gemini_api(svc)
                    outcome == IF ~main_jsx_content.ok THEN "error"
                               ELSE IF ~Truthy(main_jsx_content) THEN "empty"
                               ELSE IF io = "writefail" THEN "writefail"
                               ELSE "ok"
                IN /\ io = "writefail" => (Truthy(main_jsx_content) /\ faults < MaxFaults)
                   /\ faults' = IF io = "ok" THEN faults ELSE faults + 1
                   /\ CASE outcome = "ok" ->
                             st' = [st EXCEPT !.files =
                                       Overlay(@, [p \in {MainJsxPath} |-> main_jsx_content.text])]
                        [] outcome = "writefail" ->
                             \E left \in {st.files, Overlay(st.files, [p \in {MainJsxPath} |-> <<>>])} :
                                st' = [st EXCEPT !.files = left]
                        [] OTHER -> st' = st
                   /\ log' = Append(log, [kind |-> "entry", path |-> MainJsxPath,
                                          payload |-> index_js_content, outcome |-> outcome,
                                          text |-> main_jsx_content.text,
                                          wrote |-> Wrote(st.files, st'.files)])
                   /\ Called(svc, main_jsx_content)
       \/ /\ index_js_content = <<>>
          /\ UNCHANGED <<st, log, faults, apiSvc, apiResult, apiRequests>>
    /\ written' = written \cup Wrote(st.files, st'.files)
    /\ Goto("summary")
    /\ UNCHANGED <<inVars, walkVars, jobIdx, madeDirs, apiPc, clsVars>>

\* "CONVERSION COMPLETE" and the next steps; main() returns, the process exits 0
Finish ==
    /\ pc = "summary"
    /\ pc' = "exited"
    /\ exitStatus' = 0
    /\ exitCause' = "done"
    /\ UNCHANGED <<inVars, st, walkVars, jobIdx, histVars, apiVars, clsVars>>

ClsOff ==
    /\ clsPc = "off"
    /\ clsIn = <<>>
    /\ clsOut = <<>>

RunOff ==
    /\ variant = 2
    /\ argc = 1
    /\ keyIsPlaceholder = FALSE
    /\ cfgRaises = FALSE
    /\ srcDir = "ok"
    /\ source = <<>>
    /\ destExisted = FALSE
    /\ pc = "off"
    /\ exitStatus = -1
    /\ exitCause = ""
    /\ st = <<>>
    /\ index_js_content = <<>>
    /\ walkDir = <<>>
    /\ visited = {}
    /\ jobIdx = 1
    /\ log = <<>>
    /\ written = {}
    /\ madeDirs = {}
    /\ faults = 0

InitApi == ApiInit /\ ClsOff /\ RunOff

NextApi == ApiRequest \/ ApiReturn

SpecApi == InitApi /\ [][NextApi]_vars

InitClassify == ClsInit /\ ApiOff /\ RunOff

NextClassify == ClassifyStep

SpecClassify == InitClassify /\ [][NextClassify]_vars

Init == RunInit /\ ApiOff /\ ClsOff

Next ==
    \/ KeyGuard
    \/ CheckArgs
    \/ CheckSourceDir
    \/ CheckSrcSubdir
    \/ Configure
    \/ MakeDirs
    \/ Scaffold
    \/ ReadIndex
    \/ WalkFile
    \/ WalkEnd
    \/ Task1Job
    \/ Task1End
    \/ Task2Job
    \/ Task2End
    \/ Task3Entry
    \/ Finish

Spec == Init /\ [][Next]_vars

---------------------------------------------------------------------------
(* Claims about call_gemini_api, under SpecApi *)

NL == <<"\n">>

ApiReturnedText == apiPc = "returned" /\ ~apiSvc.raises

\* the response, trimmed, begins with neither known opener
NoKnownOpener(t) == ~StartsWith(Strip(t), FenceJsx) /\ ~StartsWith(Strip(t), FenceJavascript)

\* C1: a response made of the jsx opener, a newline, a payload, a newline and the
\* closing fence returns exactly the trimmed payload.
C1_JsxFenceStripped ==
    \A code \in Bodies :
        (ApiReturnedText /\ apiSvc.text = FenceJsx \o NL \o code \o NL \o Fence)
            => apiResult = Some(Strip(code))

\* C2 as stated: a response that does not begin with a known opener is returned
\* with only its surrounding whitespace trimmed.
C2_NoOpenerOnlyTrimmed ==
    (ApiReturnedText /\ NoKnownOpener(apiSvc.text)) => apiResult = Some(Strip(apiSvc.text))

\* C2 amended: a response that, trimmed, does not begin with a known opener is
\* returned trimmed, less a closing fence it ends with (the rest trimmed again);
\* nothing else is removed.
C2_NoOpenerTrimmedLessClosingFence ==
    (ApiReturnedText /\ NoKnownOpener(apiSvc.text)) =>
        LET t == Strip(apiSvc.text)
        IN apiResult = Some(IF EndsWith(t, Fence) THEN Strip(DropLast(t, Len(Fence))) ELSE t)

\* a response without opener that ends with a closing fence has been returned
C2_Witness ==
    /\ ApiReturnedText
    /\ NoKnownOpener(apiSvc.text)
    /\ EndsWith(Strip(apiSvc.text), Fence)
    /\ apiResult.text # <<>>
    /\ apiResult.text # Strip(apiSvc.text)

---------------------------------------------------------------------------
(* Claims about the classification of one file, under SpecClassify *)

ClsName == Basename(clsIn.rel)

\* the destination path the claims state: the destination src root joined with
\* the relative path whose final .js is replaced by .jsx
RenamedDest == Join(DestSrcDir(clsIn.base), DropLast(clsIn.rel, Len(DotJs)) \o DotJsx)

\* C6: a file whose name ends in .js, is not index.js and has no test suffix takes
\* the ConvertibleScript branch: its destination is the destination src root
\* joined with the same relative path with only the final .js replaced by .jsx,
\* in the same directory, and its copy is queued for import-path normalization
\* and not for test conversion.
C6_ConvertibleScript ==
    (clsPc = "out" /\ EndsWith(ClsName, DotJs) /\ ClsName # IndexJs /\ ~IsTestName(ClsName)) =>
        /\ clsOut.cls.role = "jsx"
        /\ clsOut.cls.dest = RenamedDest
        /\ Dirname(clsOut.cls.dest) = Dirname(Join(DestSrcDir(clsIn.base), clsIn.rel))
        /\ clsIn.copyOk =>
              /\ clsOut.st.jsx = <<RenamedDest>>
              /\ clsOut.st.test = <<>>
              /\ RenamedDest \in DOMAIN clsOut.st.files
              /\ clsOut.st.files[RenamedDest] = ClsContent

\* a plain script in a subdirectory whose name holds ".js" was renamed and queued
C6_Witness ==
    /\ clsPc = "out"
    /\ clsIn.rel = <<"v", ".", "j", "s", "/", "A", ".", "j", "s">>
    /\ clsIn.base = ProjPJs
    /\ clsOut.st.jsx = <<RenamedDest>>

\* C7: in convertor2.py a *.test.js or *.spec.js file takes the TestFile branch,
\* is queued for test conversion only, and its destination is its relative path
\* with the .js extension replaced by .jsx and everything else unchanged; in
\* convertor.py the same file takes the ConvertibleScript branch.
C7_TestFile ==
    (clsPc = "out" /\ IsTestName(ClsName)) =>
        /\ clsIn.variant = 1 => clsOut.cls.role = "jsx"
        /\ clsIn.variant = 2 =>
              /\ clsOut.cls.role = "test"
              /\ clsOut.cls.dest = RenamedDest
              /\ clsIn.copyOk => (clsOut.st.test = <<RenamedDest>> /\ clsOut.st.jsx = <<>>)

---------------------------------------------------------------------------
(* Claims about a run of main(), under Spec *)

SetupCauses == {"key", "usage", "nosource", "nosrc", "configure", "mkdirs", "scaffold"}

\* the run ended by returning from main()
Completed == pc = "exited" /\ exitCause = "done"

\* C3: a run given one argument naming a directory with a src subdirectory, with
\* a usable credential, whose directory creation and static-file writes succeed,
\* exits with status 0 whatever the transform calls do; a non-zero status comes
\* only from a precondition, credential-configuration or scaffolding failure.
C3_ExitZeroUnlessSetupFails ==
    pc = "exited" =>
        /\ exitStatus # 0 => exitCause \in SetupCauses
        /\ (/\ argc = 1
            /\ srcDir = "ok"
            /\ ~keyIsPlaceholder
            /\ ~cfgRaises
            /\ exitCause \notin {"mkdirs", "scaffold"}) => exitStatus = 0

BadPrecondition == argc # 1 \/ srcDir # "ok"

\* the destination and the queues as the run found them
StartState ==
    [files |-> IF destExisted THEN StaleFiles ELSE NoFiles,
     dirs |-> IF destExisted THEN StaleDirs ELSE {},
     jsx |-> <<>>, test |-> <<>>, copied |-> {}, origin |-> NoFiles]

\* C4: with a wrong argument count, a missing source directory or a missing src
\* subdirectory the process exits non-zero, the destination is as the run found
\* it (nothing created, removed or written) and no transform call was made.
C4_PreconditionFailureTouchesNothing ==
    BadPrecondition =>
        /\ pc \in {"guard", "args", "srcdir", "srcsub", "exited"}
        /\ pc = "exited" => exitStatus = 1
        /\ st = StartState
        /\ written = {} /\ madeDirs = {}
        /\ log = <<>>

\* a run without src subdirectory has exited, an older destination being there
C4_Witness ==
    /\ pc = "exited"
    /\ srcDir = "nosrc"
    /\ exitCause = "nosrc"
    /\ destExisted
    /\ st.files = StaleFiles

PastDirectorySetup ==
    \/ pc \in {"scaffold", "readindex", "walk", "task1", "task2", "task3", "summary"}
    \/ pc = "exited" /\ exitCause \in {"scaffold", "crash", "done"}

\* C5: an existing destination is removed entirely and recreated empty before
\* anything is written, and from then on the destination holds no file or
\* directory that this run did not itself write or create.
C5_DestinationReplaced ==
    /\ pc = "scaffold" => (st.files = NoFiles /\ st.dirs = ScaffoldDirs(ProjP))
    /\ written # {} => PastDirectorySetup
    /\ PastDirectorySetup => (DOMAIN st.files \subseteq written /\ st.dirs \subseteq madeDirs)

\* a run that found an older destination has completed and copied files
C5_Witness ==
    /\ Completed
    /\ destExisted
    /\ st.copied # {}
    /\ DOMAIN StaleFiles \cap DOMAIN st.files = {}

EntryAttempts == {i \in 1..Len(log) : log[i].kind = "entry"}

\* C8: in a run that went through the transform stage, entry-point conversion was
\* attempted exactly once (payload: the content of src/index.js, target:
\* src/main.jsx) if and only if src/index.js exists, and not at all otherwise,
\* the run then still exiting 0.
C8_EntryAttemptedIffIndexExists ==
    (pc = "summary" \/ Completed) =>
        /\ Cardinality(EntryAttempts) = (IF IndexJs \in DOMAIN source THEN 1 ELSE 0)
        /\ \A i \in EntryAttempts :
              log[i].payload = source[IndexJs] /\ log[i].path = MainJsxPath
        /\ pc = "exited" => exitStatus = 0

IsImport(e) == e.kind = "import"

IsTest(e) == e.kind = "test"

\* the destination paths the iterations of a task loop went through, in order
PathsOf(entries) == [i \in 1..Len(entries) |-> entries[i].path]

ImportPaths == PathsOf(SelectSeq(log, IsImport))

TestPaths == PathsOf(SelectSeq(log, IsTest))

InTransformStage == pc \in {"task1", "task2", "task3", "summary"}

\* C9: a failed transform (failure value, empty content, or the file's read or
\* write raising) never ends the run: each task loop goes through every queued
\* file in order whatever the earlier outcomes, the later stages are entered,
\* the process never exits non-zero once a job has run, and every state of the
\* transform stage has a next step, up to the final summary and exit 0.
C9_FailureNeverAborts ==
    /\ pc = "task1" => (ImportPaths = SubSeq(st.jsx, 1, jobIdx - 1) /\ TestPaths = <<>>)
    /\ pc = "task2" => (ImportPaths = st.jsx /\ TestPaths = SubSeq(st.test, 1, jobIdx - 1))
    /\ (pc \in {"task3", "summary"} \/ Completed) => (ImportPaths = st.jsx /\ TestPaths = st.test)
    /\ (pc = "summary" \/ Completed) => (EntryAttempts # {} <=> index_js_content # <<>>)
    /\ log # <<>> => (InTransformStage \/ (pc = "exited" /\ exitStatus = 0))
    /\ InTransformStage => ENABLED Next

\* a completed run whose first import job failed, and which still ran the second
\* import job, a test job and the entry-point job
C9_Witness ==
    /\ Completed
    /\ exitStatus = 0
    /\ Len(log) = 3
    /\ log[1].kind = "import" /\ log[1].outcome = "error"
    /\ log[2].kind = "test" /\ log[2].outcome = "openfail"
    /\ log[3].kind = "entry" /\ log[3].outcome = "empty"

TransformFailed(e) == e.outcome \in {"error", "empty"}

\* C10 as stated: after a failed transform of any job kind the destination holds
\* the file's original content as copied from the source (for the entry point:
\* some destination file holds the content of src/index.js).
C10_OriginalLeftInPlace ==
    \A i \in 1..Len(log) :
        TransformFailed(log[i]) =>
            IF log[i].kind = "entry"
            THEN \E p \in DOMAIN st.files : st.files[p] = source[IndexJs]
            ELSE /\ log[i].path \in DOMAIN st.files
                 /\ st.files[log[i].path] = source[st.origin[log[i].path]]

\* a later job of the run changed the file the i-th job was about
RewrittenLater(i) ==
    \E j \in (i + 1)..Len(log) : log[j].path = log[i].path /\ log[j].wrote # {}

\* C10 amended: a failed transform writes nothing. For an import or test job the
\* destination file holds the content the walk copied there for as long as no
\* later job writes that path (the entry-point job writes src/main.jsx, also over
\* the copy of a source src/main.js); for the entry point nothing was copied
\* (src/index.js is skipped by the walk) and the failed attempt creates no
\* src/main.jsx. The run goes on to exit 0.
C10_FailedTransformWritesNothing ==
    \A i \in 1..Len(log) :
        TransformFailed(log[i]) =>
            /\ log[i].wrote = {}
            /\ pc = "exited" => exitStatus = 0
            /\ IF log[i].kind = "entry"
               THEN IndexJs \notin st.copied
               ELSE /\ log[i].path \in DOMAIN st.files
                    /\ ~RewrittenLater(i) =>
                          /\ st.files[log[i].path] = log[i].payload
                          /\ st.files[log[i].path] = source[st.origin[log[i].path]]

\* a completed run in which an import job got an empty result and the
\* entry-point call failed
C10_Witness ==
    /\ Completed
    /\ \E i, j \in 1..Len(log) :
          /\ log[i].kind = "import" /\ log[i].outcome = "empty"
          /\ log[j].kind = "entry" /\ log[j].outcome = "error"

---------------------------------------------------------------------------
(* Claims about the destination tree of a run, under Spec *)

DestSrcPrefix == DestSrcDir(ProjP) \o Slash

\* the files under the destination src directory, as paths relative to it
DestSrcFileSet ==
    {Drop(p, Len(DestSrcPrefix)) : p \in {q \in DOMAIN st.files : StartsWith(q, DestSrcPrefix)}}

\* the renaming the claims state: index.js -> main.jsx, x.js -> x.jsx, other
\* names unchanged
Renamed(rel) ==
    IF rel = IndexJs THEN MainJsx
    ELSE IF EndsWith(rel, DotJs) THEN DropLast(rel, Len(DotJs)) \o DotJsx
    ELSE rel

RenamedImage == {Renamed(r) : r \in DOMAIN source}

\* the files section 2 puts under src whatever the source holds
StaticSrcFiles == {IndexCss, AppTestJsx}

\* every transform call of the run succeeded and returned its input unchanged
AllTransformsIdentity ==
    \A i \in 1..Len(log) : log[i].outcome = "ok" /\ log[i].text = log[i].payload

\* src/index.js, when the source has one, holds some text
EntryNotEmpty == IndexJs \in DOMAIN source => source[IndexJs] # <<>>

\* C11: in a completed run without I/O failure whose transform calls all succeed
\* and return their input unchanged (src/index.js, if any, not being empty), the
\* source tree src/{index.js, App.js, App.css} gives a destination src holding
\* main.jsx, App.jsx and App.css and neither index.js nor App.js; in general the
\* destination src file set is the image of the source src file set under
\* index.js -> main.jsx, x.js -> x.jsx, other names unchanged (the static files
\* of section 2 left aside).
C11_DestinationIsRenamedImage ==
    (Completed /\ faults = 0 /\ AllTransformsIdentity /\ EntryNotEmpty) =>
        /\ DOMAIN source = {IndexJs, AppJs, AppCss} =>
              /\ {MainJsx, AppJsx, AppCss} \subseteq DestSrcFileSet
              /\ IndexJs \notin DestSrcFileSet
              /\ AppJs \notin DestSrcFileSet
        /\ DestSrcFileSet \ StaticSrcFiles = RenamedImage \ StaticSrcFiles

WalkIsOver == InTransformStage \/ Completed

\* the walk met no failing copy: every file it did not skip was copied
NoCopyFailed == \A r \in DOMAIN source : Basename(r) # IndexJs => r \in st.copied

\* the destination files that count as the counterpart of a source file: its
\* mirrored copy, its renamed .jsx copy, or main.jsx for src/index.js
Counterparts(rel) ==
    {rel} \cup (IF EndsWith(rel, DotJs) THEN {DropLast(rel, Len(DotJs)) \o DotJsx} ELSE {})
          \cup (IF rel = IndexJs THEN {MainJsx} ELSE {})

\* C12: the walk goes through every file under the source src root, at any
\* depth, and once it is over with no copy and no transform having failed (and
\* src/index.js, if any, not being empty) every source file has a counterpart in
\* the destination src: its mirrored copy, its renamed .jsx copy, or main.jsx
\* for the entry point.
C12_WalkExhaustive ==
    /\ WalkIsOver => visited = DOMAIN source
    /\ (Completed /\ faults = 0 /\ NoCopyFailed /\ EntryNotEmpty
            /\ \A i \in 1..Len(log) : log[i].outcome = "ok") =>
          \A r \in DOMAIN source : Counterparts(r) \cap DestSrcFileSet # {}

\* the destination path the walk copied the source file rel to
DestOf(rel) == ClassifyFile(variant, DestSrcDir(ProjP), rel).dest

\* the entry-point job wrote src/main.jsx
MainJsxWritten == \E i \in EntryAttempts : log[i].outcome = "ok"

\* C13: within a run no two distinct source files are copied to the same
\* destination path, and the entry-point output src/main.jsx is not the
\* destination of any source file the walk copied.
C13_DestinationsInjective ==
    /\ \A r1, r2 \in st.copied : r1 # r2 => DestOf(r1) # DestOf(r2)
    /\ MainJsxWritten => \A r \in st.copied : DestOf(r) # MainJsxPath

---------------------------------------------------------------------------
(* Claims about the calls a run makes, under Spec *)

\* the job iterations that reached the call (the file was opened and read)
Invocations == {i \in 1..Len(log) : log[i].outcome # "openfail"}

\* the latest of them
LastInvocation == CHOOSE i \in Invocations : \A j \in Invocations : j <= i

\* C14: every call of call_gemini_api made by a run issues one request and no
\* more, and hands its caller either text or the failure value: when the
\* service or the response handling raises, the caller gets None, the job is
\* recorded as failed and the run goes on (it never ends non-zero once a call
\* was made); no job is submitted a second time, failed or not.
C14_OneRequestNoEscape ==
    /\ apiRequests = Cardinality(Invocations)
    /\ apiRequests > 0 =>
          /\ apiResult = None \/ apiResult = Some(apiResult.text)
          /\ apiSvc.raises => apiResult = None
          /\ apiResult = None <=> log[LastInvocation].outcome = "error"
          /\ InTransformStage \/ (pc = "exited" /\ exitStatus = 0)
    /\ \A i, j \in 1..Len(log) :
          (log[i].kind = log[j].kind /\ log[i].path = log[j].path) => i = j

\* a completed run whose first call met a raising service, and which made two
\* more calls after it, one request each
C14_Witness ==
    /\ Completed
    /\ Len(log) = 3
    /\ log[1].outcome = "error"
    /\ log[2].outcome = "ok"
    /\ log[3].kind = "entry"
    /\ apiRequests = 3

---------------------------------------------------------------------------
(* Claims about a failing copy, under Spec *)

\* the source files the walk tried to copy and could not
CopyFailed == {r \in visited : Basename(r) # IndexJs /\ r \notin st.copied}

Range(q) == {q[k] : k \in 1..Len(q)}

\* the walk loop met a failing copy in this step
CopyFailsNow == pc = "walk" /\ CopyFailed' # CopyFailed

\* Every queued path is one a copy succeeded to, at most one entry per copied
\* file; the import and test jobs are run on queue entries only; once the walk is
\* over it has been through every file.
CopyFailureSkipsFile ==
    /\ CopyFailed \cap st.copied = {}
    /\ Range(st.jsx) \cup Range(st.test) \subseteq DOMAIN st.origin
    /\ Len(st.jsx) + Len(st.test) <= Cardinality(st.copied)
    /\ \A i \in 1..Len(log) :
          /\ log[i].kind = "import" => log[i].path \in Range(st.jsx)
          /\ log[i].kind = "test" => log[i].path \in Range(st.test)
    /\ WalkIsOver => visited = DOMAIN source

\* C15: a copy that fails during the walk does not end the run and changes
\* neither the destination files nor the queues: the file is skipped, it is in no
\* transform queue and no transform call is made for it, the walk goes on with
\* the remaining files and reaches the transform stage.
C15_CopyFailureSkipsFile ==
    /\ []CopyFailureSkipsFile
    /\ [][CopyFailsNow =>
             /\ pc' = "walk"
             /\ st'.files = st.files /\ st'.jsx = st.jsx /\ st'.test = st.test
             /\ log' = log]_vars

\* a completed run in which the copy of src/App.js failed and a file of a
\* subdirectory, walked after it, was copied, queued and transformed
C15_Witness ==
    /\ Completed
    /\ AppJs \in CopyFailed
    /\ SubB \in st.copied
    /\ \E i \in 1..Len(log) : log[i].path = DestOf(SubB) /\ log[i].outcome = "ok"

---------------------------------------------------------------------------
(* Claims about a successful import or test job, under Spec *)

\* the i-th job was an import or test job whose call returned text that was written
TransformedInPlace(i) == log[i].kind \in {"import", "test"} /\ log[i].outcome = "ok"

\* C16: after a successful transform of a queued script or test file the
\* destination file holds exactly the text the call returned, nothing of a
\* longer original being left after it, for as long as no later job writes that
\* path; and the job changed no destination file other than its own.
C16_TransformedContentExact ==
    \A i \in 1..Len(log) :
        TransformedInPlace(i) =>
            /\ log[i].wrote \subseteq {log[i].path}
            /\ log[i].path \in DOMAIN st.files
            /\ ~RewrittenLater(i) => st.files[log[i].path] = log[i].text

\* an import job and a test job each replaced a longer original by a shorter
\* text, and the run completed
C16_Witness ==
    /\ Completed
    /\ \E i, j \in 1..Len(log) :
          /\ log[i].kind = "import" /\ log[j].kind = "test"
          /\ TransformedInPlace(i) /\ TransformedInPlace(j)
          /\ Len(log[i].text) < Len(log[i].payload)
          /\ Len(log[j].text) < Len(log[j].payload)
          /\ st.files[log[i].path] = log[i].text
          /\ st.files[log[j].path] = log[j].text

====
